---------------------------- MODULE Spec2Model ----------------------------
(***************************************************************************)
(* Model of the two HTTP handlers of the repository.                       *)
(*                                                                         *)
(*   - the task-store handler (src/unnamed/part_000): module.exports,      *)
(*     getSQLConnection and execQuery, one action per segment of code      *)
(*     between two awaits;                                                 *)
(*   - the notification handler                                            *)
(*     (src/team-central-dashboard/api/finishTaskNotification/index.ts):   *)
(*     run, one action per segment of code between two awaits.             *)
(*                                                                         *)
(* The identity SDK, the SQL driver (tedious), the store and the graph     *)
(* service are the environment: every outcome they can deliver at an       *)
(* await is drawn with \E.                                                 *)
(*                                                                         *)
(* An optional JavaScript value is a sequence of length 0 (undefined) or 1.*)
(***************************************************************************)
EXTENDS Integers, Sequences, FiniteSets, TLC

VARIABLES
    \* ---- the store (dbo.Todo), which outlives a request
    table,          \* set of rows
    nextId,         \* the identity column's next value
    \* ---- the task-store handler, one invocation at a time
    served,         \* invocations started so far
    pc,             \* "idle" | "acquire" | "exchange" | "exec" | "done" | "uncaught"
    req,            \* the request and the binding's config: method, token, query, body
    connection,     \* "none" (undefined) | "loggedIn" | "final" | "closed"
    query,          \* the `query` variable: <<>> (undefined) or <<statement>>
    promise,        \* execQuery's promise: "none" | "pending" | "resolved" | "rejected"
    driver,         \* what the driver holds: "none" | "sent" | "willFail"
    res,            \* execQuery's `res`: the rows collected
    err,            \* the error a rejected promise carries: <<>> or <<message>>
    response,       \* <<>> or <<[status, body]>>: the value the handler returned
    \* ---- history of the invocation (what the claims speak about)
    log,            \* the suspend points reached and close(), in order
    closed,         \* number of connection.close() calls
    execSqlCalls,   \* number of connection.execSql() calls
    executed,       \* number of statements the store executed
    connectError,   \* <<>> or <<message>>: the error the 'connect' event carried
    exchangeError,  \* <<>> or <<message>>: the failure of the token exchange
    fault,          \* TRUE once the environment failed a step of this invocation
    table0,         \* the table when the invocation started
    \* ---- the notification handler, one invocation at a time
    nserved,        \* invocations started so far
    npc,            \* "idle" | "client" | "profile" | "install" | "post" | "done"
    nreq,           \* the request headers and the binding's AccessToken
    nres,           \* the `res` object built at the top of run
    nresponse,      \* <<>> or <<[status, body]>>: the value run returned
    credentials,    \* number of OnBehalfOfUserCredential constructions attempted
    oboCredential,  \* the `oboCredential` variable: "none" (unset) | "built"
    calls,          \* the graph calls made, in order
    userId,         \* <<>> or <<id>>: userProfile["id"]
    installationId, \* <<>> or <<id>>
    logged          \* <<>> or <<error>>: what the catch block logged

storeVars == <<table, nextId, served, pc, req, connection, query, promise, driver,
               res, err, response, log, closed, execSqlCalls, executed,
               connectError, exchangeError, fault, table0>>

notifyVars == <<nserved, npc, nreq, nres, nresponse, credentials, oboCredential,
                calls, userId, installationId, logged>>

vars == <<storeVars, notifyVars>>

---------------------------------------------------------------------------
\* Bounds of the model.

\* Invocations of a handler in one behaviour.
MaxRequests == 2

\* Largest id the store assigns: a create request is issued only below it.
MaxId == 4

---------------------------------------------------------------------------
\* Input domains.

Methods == {"GET", "put", "Post", "DELETE", "PATCH"}

\* The binding's AccessToken: one the credential cannot parse, or a token of
\* user u1 / u2.
Tokens == {<<"malformed">>, <<"tokenU1">>, <<"tokenU2">>}

Channels == {"c1", "c2"}

Descriptions == {<<>>, <<"">>, <<"b">>}

Flags == {<<>>, <<TRUE>>, <<FALSE>>}

Ids == {<<>>, <<1>>, <<3>>}

NoFields == [id |-> <<>>, description |-> <<>>, isCompleted |-> <<>>,
             channelOrChatId |-> <<>>]

\* The bodies a request of method m (lower case) is issued with: absent, or an
\* object with the fields that method reads (the others left undefined).
Bodies(m) ==
    CASE m = "put" ->
           {<<>>} \cup {<<[NoFields EXCEPT !.id = i, !.description = d, !.isCompleted = f]>> :
                           i \in Ids, d \in Descriptions, f \in Flags}
      [] m = "post" ->
           {<<>>} \cup {<<[NoFields EXCEPT !.description = d, !.isCompleted = f,
                                           !.channelOrChatId = c]>> :
                           d \in {<<>>, <<"b">>}, f \in {<<>>, <<TRUE>>},
                           c \in {<<>>, <<"c1">>}}
      [] m = "delete" ->
           {<<>>} \cup {<<[NoFields EXCEPT !.id = i]>> : i \in Ids}
      [] OTHER -> {<<>>}

\* req.query.channelOrChatId, read by a get only.
Queries(m) == IF m = "get" THEN {<<>>} \cup {<<c>> : c \in Channels} ELSE {<<>>}

---------------------------------------------------------------------------
\* Pure parts of the task-store handler.

\* req.method.toLowerCase()
ToLowerCase(m) ==
    CASE m = "GET" -> "get"
      [] m = "Post" -> "post"
      [] m = "DELETE" -> "delete"
      [] m = "PATCH" -> "patch"
      [] OTHER -> m

\* Truthiness of an optional string: undefined and "" are falsy.
TruthyString(o) == o # <<>> /\ o[1] # ""

\* `x ? 1 : 0` on an optional boolean.
Bit(o) == IF o = <<TRUE>> THEN 1 ELSE 0

\* `${x}` of an optional string inside a template literal.
Interpolate(o) == IF o = <<>> THEN "undefined" ELSE o[1]

\* new OnBehalfOfUserCredential(accessToken) throws on a token it cannot parse.
TokenParses(t) == t \in {<<"tokenU1">>, <<"tokenU2">>}

\* currentUser.objectId of a parsed token.
ObjectIdOf(t) == IF t = <<"tokenU1">> THEN "u1" ELSE "u2"

\* The switch on method: [throws, query]. throws: req.body is undefined and a
\* field of it is read (a TypeError). query: <<>> when no case matched.
BuildQuery(method, r, objectId) ==
    CASE method = "get" ->
           [throws |-> FALSE,
            query |-> <<[op |-> "select", channelOrChatId |-> Interpolate(r.query)]>>]
      [] method = "put" ->
           IF r.body = <<>> THEN [throws |-> TRUE, query |-> <<>>]
           ELSE IF TruthyString(r.body[1].description)
           THEN [throws |-> FALSE,
                 query |-> <<[op |-> "updateDescription",
                              description |-> r.body[1].description[1],
                              id |-> r.body[1].id]>>]
           ELSE [throws |-> FALSE,
                 query |-> <<[op |-> "updateIsCompleted",
                              isCompleted |-> Bit(r.body[1].isCompleted),
                              id |-> r.body[1].id]>>]
      [] method = "post" ->
           IF r.body = <<>> THEN [throws |-> TRUE, query |-> <<>>]
           ELSE [throws |-> FALSE,
                 query |-> <<[op |-> "insert",
                              description |-> Interpolate(r.body[1].description),
                              objectId |-> objectId,
                              isCompleted |-> Bit(r.body[1].isCompleted),
                              channelOrChatId |-> Interpolate(r.body[1].channelOrChatId)]>>]
      [] method = "delete" ->
           IF r.body # <<>>
           THEN [throws |-> FALSE,
                 query |-> <<[op |-> "deleteById", id |-> r.body[1].id]>>]
           ELSE [throws |-> FALSE,
                 query |-> <<[op |-> "deleteByObjectId", objectId |-> objectId]>>]
      [] OTHER -> [throws |-> FALSE, query |-> <<>>]

\* A mutant of CatchResponse: the failure's message is replaced by a fixed text.
CatchResponseGeneric(message) ==
    [status |-> 500, body |-> [error |-> "Internal Server Error"]]

\* The catch block: status 500 and the error's message.
CatchResponse(message) == [status |-> 500, body |-> [error |-> message]]

---------------------------------------------------------------------------
\* The store, as the statements of the handler use it.

\* A statement whose id was interpolated from undefined reads `id = undefined`,
\* which the store rejects (no such column).
StatementValid(s) ==
    s.op \in {"updateDescription", "updateIsCompleted", "deleteById"} => s.id # <<>>

\* The table after statement s.
Apply(t, n, s) ==
    CASE s.op = "select" -> t
      [] s.op = "updateDescription" ->
           {IF r.id = s.id[1] THEN [r EXCEPT !.description = s.description] ELSE r : r \in t}
      [] s.op = "updateIsCompleted" ->
           {IF r.id = s.id[1] THEN [r EXCEPT !.isCompleted = s.isCompleted] ELSE r : r \in t}
      [] s.op = "insert" ->
           t \cup {[id |-> n, description |-> s.description, isCompleted |-> s.isCompleted,
                    objectId |-> s.objectId, channelOrChatId |-> s.channelOrChatId]}
      [] s.op = "deleteById" -> {r \in t : r.id # s.id[1]}
      [] s.op = "deleteByObjectId" -> {r \in t : r.objectId # s.objectId}

\* The rows statement s returns: the 'row' events, collected into `res`.
Rows(t, s) ==
    IF s.op = "select"
    THEN {[id |-> r.id, description |-> r.description, isCompleted |-> r.isCompleted,
           objectId |-> r.objectId] : r \in {x \in t : x.channelOrChatId = s.channelOrChatId}}
    ELSE {}

InitialTable ==
    {[id |-> 1, description |-> "a", isCompleted |-> 1, objectId |-> "u1",
      channelOrChatId |-> "c1"],
     [id |-> 2, description |-> "a", isCompleted |-> 0, objectId |-> "u2",
      channelOrChatId |-> "c1"],
     [id |-> 3, description |-> "a", isCompleted |-> 0, objectId |-> "u1",
      channelOrChatId |-> "c2"]}

---------------------------------------------------------------------------
\* The task-store handler: module.exports, getSQLConnection, execQuery.

\* `return` from the try or the catch block, then the finally block: the
\* connection is closed when the variable `connection` (c) is set.
Finish(resp, c, lg) ==
    /\ response' = <<resp>>
    /\ pc' = "done"
    /\ IF c # "none"
       THEN /\ connection' = "closed"
            /\ closed' = closed + 1
            /\ log' = Append(lg, "close")
       ELSE /\ connection' = c
            /\ closed' = closed
            /\ log' = lg

\* What connection.execSql(request) does before it returns, by the driver's
\* state (c) and the statement text (q):
\*   "throws"   an exception leaves execSql, inside the promise's executor: on a
\*              connection that is not logged in the driver calls the request's
\*              callback at once with an error, and the callback rethrows it;
\*   "willFail" the driver fails the request later, through the callback;
\*   "sent"     the statement is on its way to the store.
\* An undefined statement text is refused either at once or later, depending on
\* the driver's version.
ExecSql(c, q) ==
    IF c # "loggedIn" THEN {"throws"}
    ELSE IF q = <<>> THEN {"throws", "willFail"}
    ELSE {"sent"}

\* The message of the exception that leaves execSql.
ExecSqlMessage(c) ==
    IF c # "loggedIn" THEN "Requests can only be made in the LoggedIn state"
    ELSE "The first argument must be of type string"

\* The platform invokes the handler: loadConfiguration(), then the call of
\* getSQLConnection, which is awaited.
Invoke(m, t, q, b) ==
    /\ pc \in {"idle", "done", "uncaught"}
    /\ served < MaxRequests
    /\ ToLowerCase(m) = "post" => nextId <= MaxId
    /\ served' = served + 1
    /\ req' = [method |-> m, token |-> t, query |-> q, body |-> b]
    /\ pc' = "acquire"
    /\ connection' = "none"
    /\ query' = <<>>
    /\ promise' = "none"
    /\ driver' = "none"
    /\ res' = {}
    /\ err' = <<>>
    /\ response' = <<>>
    /\ log' = <<"acquire">>
    /\ closed' = 0
    /\ execSqlCalls' = 0
    /\ executed' = 0
    /\ connectError' = <<>>
    /\ exchangeError' = <<>>
    /\ fault' = FALSE
    /\ table0' = table
    /\ UNCHANGED <<table, nextId, notifyVars>>

\* getSQLConnection settles. It rejects when getConfig or new Connection
\* fails; otherwise it resolves with the connection on the 'connect' event,
\* whether or not the event carries an error. The handler then reads the
\* method and the token and constructs the credential, which throws on a token
\* it cannot parse; otherwise getUserInfo is awaited.
GetSQLConnectionSettled(outcome) ==
    /\ pc = "acquire"
    /\ IF outcome = "configError"
       THEN /\ fault' = TRUE
            /\ Finish(CatchResponse("connection configuration failed"), "none", log)
            /\ UNCHANGED <<connectError, exchangeError>>
       ELSE LET c == IF outcome = "connect" THEN "loggedIn" ELSE "final" IN
            /\ connectError' = IF outcome = "connect" THEN <<>> ELSE <<"connect failed">>
            /\ fault' = (outcome # "connect")
            /\ IF TokenParses(req.token)
               THEN /\ pc' = "exchange"
                    /\ connection' = c
                    /\ log' = Append(log, "exchange")
                    /\ UNCHANGED <<response, closed, exchangeError>>
               ELSE /\ exchangeError' = <<"invalid access token">>
                    /\ Finish(CatchResponse("invalid access token"), c, log)
    /\ UNCHANGED <<table, nextId, served, req, query, promise, driver, res, err,
                   execSqlCalls, executed, table0, notifyVars>>

\* getUserInfo settles. On success the statement is built and execQuery is
\* called: its executor constructs the Request and calls execSql before the
\* promise is awaited.
GetUserInfoSettled(ok, d) ==
    /\ pc = "exchange"
    /\ IF ~ok
       THEN /\ exchangeError' = <<"getUserInfo failed">>
            /\ fault' = TRUE
            /\ Finish(CatchResponse("getUserInfo failed"), connection, log)
            /\ UNCHANGED <<query, promise, driver, err, execSqlCalls>>
       ELSE LET built == BuildQuery(ToLowerCase(req.method), req, ObjectIdOf(req.token)) IN
            /\ UNCHANGED <<exchangeError, fault>>
            /\ IF built.throws
               THEN /\ Finish(CatchResponse("Cannot read properties of undefined"),
                              connection, log)
                    /\ UNCHANGED <<query, promise, driver, err, execSqlCalls>>
               ELSE /\ d \in ExecSql(connection, built.query)
                    /\ query' = built.query
                    /\ execSqlCalls' = execSqlCalls + 1
                    /\ log' = Append(log, "exec")
                    /\ pc' = "exec"
                    /\ promise' = IF d = "throws" THEN "rejected" ELSE "pending"
                    /\ err' = IF d = "throws" THEN <<ExecSqlMessage(connection)>> ELSE <<>>
                    /\ driver' = IF d = "throws" THEN "none" ELSE d
                    /\ UNCHANGED <<connection, closed, response>>
    /\ UNCHANGED <<table, nextId, served, req, res, executed, connectError, table0,
                   notifyVars>>

\* The driver ends the request: the 'row' events, then the callback given to
\* new Request, then 'requestCompleted'. The callback throws the error it is
\* given: the exception leaves the driver's event handler, 'requestCompleted'
\* is not emitted and the promise stays pending.
RequestCallback(storeOk) ==
    /\ pc = "exec"
    /\ promise = "pending"
    /\ IF driver = "sent" /\ storeOk /\ StatementValid(query[1])
       THEN /\ table' = Apply(table, nextId, query[1])
            /\ nextId' = IF query[1].op = "insert" THEN nextId + 1 ELSE nextId
            /\ res' = Rows(table, query[1])
            /\ executed' = executed + 1
            /\ promise' = "resolved"
            /\ UNCHANGED <<pc, fault>>
       ELSE /\ pc' = "uncaught"
            /\ fault' = (fault \/ (driver = "sent" /\ ~storeOk))
            /\ UNCHANGED <<table, nextId, res, executed, promise>>
    /\ driver' = "none"
    /\ UNCHANGED <<served, req, connection, query, err, response, log, closed,
                   execSqlCalls, connectError, exchangeError, table0, notifyVars>>

\* A mutant of ExecQueryRejected: the failed statement is issued again.
ExecQueryRetried ==
    /\ pc = "exec"
    /\ promise = "rejected"
    /\ execSqlCalls' = execSqlCalls + 1
    /\ log' = Append(log, "exec")
    /\ promise' = "pending"
    /\ driver' = "willFail"
    /\ UNCHANGED <<table, nextId, served, pc, req, connection, query, res, err,
                   response, closed, executed, connectError, exchangeError, fault,
                   table0, notifyVars>>

\* The await of execQuery throws: the catch block, then the finally block.
ExecQueryRejected ==
    /\ pc = "exec"
    /\ promise = "rejected"
    /\ Finish(CatchResponse(err[1]), connection, log)
    /\ UNCHANGED <<table, nextId, served, req, query, promise, driver, res, err,
                   execSqlCalls, executed, connectError, exchangeError, fault,
                   table0, notifyVars>>

\* The await of execQuery yields the rows: status 200, then the finally block.
ExecQueryResolved ==
    /\ pc = "exec"
    /\ promise = "resolved"
    /\ Finish([status |-> 200, body |-> [rows |-> res]], connection, log)
    /\ UNCHANGED <<table, nextId, served, req, query, promise, driver, res, err,
                   execSqlCalls, executed, connectError, exchangeError, fault,
                   table0, notifyVars>>

---------------------------------------------------------------------------
\* The notification handler: run.

\* teamsfxContext["AccessToken"] as the binding supplies it.
NotifyTokens == {<<>>, <<"">>, <<"malformed">>, <<"tokenU1">>}

\* req.headers: undefined, or a headers object.
Headers == {<<>>, <<"h1">>, <<"h2">>}

UserIds == {"u1", "u2"}

InstallationIds == {"i1", "i2"}

\* `req.headers || ""`
Echo(h) == IF h = <<>> THEN "" ELSE h[1]

\* A mutant of MissingToken: only an undefined token counts as missing.
MissingTokenUndefinedOnly(t) == t = <<>>

\* `!accessToken`
MissingToken(t) == ~TruthyString(t)

\* A mutant of AfterCatch: the failure of the notification is surfaced.
AfterCatchSurfaced(r, e) == [status |-> 500, body |-> [error |-> e]]

\* The catch block of the notification steps logs e; run then returns res.
AfterCatch(r, e) == r

\* The catch block is entered with error e.
Swallow(e) ==
    /\ logged' = <<e>>
    /\ nresponse' = <<AfterCatch(nres, e)>>
    /\ npc' = "done"

\* The platform invokes run: the response is initialised, the token is
\* validated, the delegated credential is constructed and the graph client for
\* the user is created; the first await follows.
Run(h, t, credOk, clientOk) ==
    /\ npc \in {"idle", "done"}
    /\ nserved < MaxRequests
    /\ nserved' = nserved + 1
    /\ nreq' = [headers |-> h, token |-> t]
    /\ nres' = [status |-> 200, body |-> [receivedHTTPRequestBody |-> Echo(h)]]
    /\ calls' = <<>>
    /\ userId' = <<>>
    /\ installationId' = <<>>
    /\ IF MissingToken(t)
       THEN /\ nresponse' = <<[status |-> 400,
                               body |-> [error |-> "No access token was found in request header."]]>>
            /\ npc' = "done"
            /\ credentials' = 0
            /\ oboCredential' = "none"
            /\ logged' = <<>>
       ELSE /\ credentials' = 1
            /\ IF ~(TokenParses(t) /\ credOk)
               THEN /\ nresponse' = <<[status |-> 500,
                                       body |-> [error |-> "Failed to construct OnBehalfOfUserCredential using your accessToken. Ensure your function app is configured with the right Azure AD App registration."]]>>
                    /\ npc' = "done"
                    /\ oboCredential' = "none"
                    /\ logged' = <<>>
               ELSE /\ oboCredential' = "built"
                    /\ IF clientOk
                       THEN /\ npc' = "client"
                            /\ nresponse' = <<>>
                            /\ logged' = <<>>
                       ELSE /\ logged' = <<"createMicrosoftGraphClientWithCredential">>
                            /\ nresponse' = <<AfterCatch(nres', "createMicrosoftGraphClientWithCredential")>>
                            /\ npc' = "done"
    /\ UNCHANGED storeVars

\* The await of the graph client resumes: the profile read is issued.
ClientAwaited ==
    /\ npc = "client"
    /\ calls' = Append(calls, [api |-> "/me", method |-> "get"])
    /\ npc' = "profile"
    /\ UNCHANGED <<nserved, nreq, nres, nresponse, credentials, oboCredential, userId,
                   installationId, logged, storeVars>>

\* The profile read settles; on success the installation id is looked up.
ProfileSettled(ok, uid) ==
    /\ npc = "profile"
    /\ IF ok
       THEN /\ userId' = <<uid>>
            /\ calls' = Append(calls, [api |-> "getInstallationId", method |-> uid])
            /\ npc' = "install"
            /\ UNCHANGED <<nresponse, logged>>
       ELSE /\ Swallow("/me")
            /\ UNCHANGED <<userId, calls>>
    /\ UNCHANGED <<nserved, nreq, nres, credentials, oboCredential, installationId,
                   storeVars>>

\* The installation lookup settles; on success the application credential and
\* its graph client are constructed and the notification is posted.
InstallationSettled(ok, iid, appOk) ==
    /\ npc = "install"
    /\ IF ok
       THEN /\ installationId' = <<iid>>
            /\ IF appOk
               THEN /\ calls' = Append(calls,
                           [api |-> "sendActivityNotification", method |-> "post"])
                    /\ npc' = "post"
                    /\ UNCHANGED <<nresponse, logged>>
               ELSE /\ Swallow("createMicrosoftGraphClient")
                    /\ UNCHANGED calls
       ELSE /\ Swallow("getInstallationId")
            /\ UNCHANGED <<installationId, calls>>
    /\ UNCHANGED <<nserved, nreq, nres, credentials, oboCredential, userId, storeVars>>

\* The notification post settles; run returns res either way.
PostSettled(ok) ==
    /\ npc = "post"
    /\ IF ok
       THEN /\ nresponse' = <<nres>>
            /\ npc' = "done"
            /\ UNCHANGED logged
       ELSE Swallow("sendActivityNotification")
    /\ UNCHANGED <<nserved, nreq, nres, credentials, oboCredential, calls, userId,
                   installationId, storeVars>>

NextNotify ==
    \/ \E h \in Headers, t \in NotifyTokens, credOk \in BOOLEAN, clientOk \in BOOLEAN :
         Run(h, t, credOk, clientOk)
    \/ ClientAwaited
    \/ \E ok \in BOOLEAN, uid \in UserIds : ProfileSettled(ok, uid)
    \/ \E ok \in BOOLEAN, iid \in InstallationIds, appOk \in BOOLEAN :
         InstallationSettled(ok, iid, appOk)
    \/ \E ok \in BOOLEAN : PostSettled(ok)


InitStore ==
    /\ table = InitialTable
    /\ nextId = 4
    /\ served = 0
    /\ pc = "idle"
    /\ req = [method |-> "GET", token |-> <<"malformed">>, query |-> <<>>, body |-> <<>>]
    /\ connection = "none"
    /\ query = <<>>
    /\ promise = "none"
    /\ driver = "none"
    /\ res = {}
    /\ err = <<>>
    /\ response = <<>>
    /\ log = <<>>
    /\ closed = 0
    /\ execSqlCalls = 0
    /\ executed = 0
    /\ connectError = <<>>
    /\ exchangeError = <<>>
    /\ fault = FALSE
    /\ table0 = InitialTable

InitNotify ==
    /\ nserved = 0
    /\ npc = "idle"
    /\ nreq = [headers |-> <<>>, token |-> <<>>]
    /\ nres = [status |-> 200, body |-> [receivedHTTPRequestBody |-> ""]]
    /\ nresponse = <<>>
    /\ credentials = 0
    /\ oboCredential = "none"
    /\ calls = <<>>
    /\ userId = <<>>
    /\ installationId = <<>>
    /\ logged = <<>>

Init == InitStore /\ InitNotify

Next ==
    \/ \E m \in Methods, t \in Tokens :
         \E q \in Queries(ToLowerCase(m)), b \in Bodies(ToLowerCase(m)) : Invoke(m, t, q, b)
    \/ \E outcome \in {"configError", "connect", "connectError"} :
         GetSQLConnectionSettled(outcome)
    \/ \E ok \in BOOLEAN, d \in {"throws", "willFail", "sent"} : GetUserInfoSettled(ok, d)
    \/ \E storeOk \in BOOLEAN : RequestCallback(storeOk)
    \/ ExecQueryRejected
    \/ ExecQueryResolved

\* The task-store handler, invoked up to MaxRequests times on one store.
Spec == Init /\ [][Next]_vars

\* The notification handler, invoked up to MaxRequests times.
SpecNotify == Init /\ [][NextNotify]_vars

---------------------------------------------------------------------------
\* Properties.

\* The invocation has ended: the handler returned, or an exception left the
\* query-completion callback and the handler's promise never settles.
Ended == pc \in {"done", "uncaught"}

Acquired == connection # "none"

Recognised(m) == ToLowerCase(m) \in {"get", "put", "post", "delete"}

\* Claim C1: in every request of the task-store handler in which a connection
\* was acquired, the connection is closed exactly once, and it is closed by
\* the time the request ends, whichever path the request takes.
C1_ClosedExactlyOnce ==
    /\ closed <= 1
    /\ (Ended /\ Acquired) => (closed = 1 /\ connection = "closed")
    /\ (response # <<>> /\ Acquired) => closed = 1

\* Claim C2: the task-store handler never raises uncaught and never leaves a
\* request without a response: a request that ended returned {status, body},
\* with status 500 when a step failed, and no exception leaves the handler or
\* the query-completion callback.
C2_AlwaysResponds ==
    /\ pc # "uncaught"
    /\ pc = "done" => response # <<>>
    /\ (pc = "done" /\ (fault \/ exchangeError # <<>>)) => response[1].status = 500

\* Claim C3: when the 'connect' event carries an error, the request fails with
\* status 500 and the connection failure's message as body.error, and no
\* statement is handed to the store.
C3_ConnectFailureFailsRequest ==
    connectError # <<>> =>
        /\ execSqlCalls = 0
        /\ executed = 0
        /\ Ended => response = <<[status |-> 500, body |-> [error |-> connectError[1]]]>>

\* Claim C4: a notification request whose context has no access token (absent
\* or empty) returns status 400 with an error body; the credential is never
\* constructed and no graph call is made.
C4_MissingTokenIs400 ==
    (npc # "idle" /\ ~TruthyString(nreq.token)) =>
        /\ npc = "done"
        /\ nresponse # <<>>
        /\ nresponse[1].status = 400
        /\ "error" \in DOMAIN nresponse[1].body
        /\ credentials = 0
        /\ oboCredential = "none"
        /\ calls = <<>>

\* Reached for C4: a request with an empty-string token was answered.
C4_Witness == npc = "done" /\ nreq.token = <<"">> /\ nresponse # <<>>

C6_Expected ==
    IF req.body # <<>> /\ req.body[1].id # <<>>
    THEN {r \in table0 : r.id # req.body[1].id[1]}
    ELSE {r \in table0 : r.objectId # ObjectIdOf(req.token)}

\* Claim C6: a delete whose body supplies an id removes only that row; a delete
\* that supplies no id removes the rows owned by the caller, and no other rows
\* (of a request no step of which the environment failed).
C6_DeleteScope ==
    (Ended /\ ToLowerCase(req.method) = "delete" /\ TokenParses(req.token) /\ ~fault)
        => table = C6_Expected

\* The rows an update leaves, as claim C7 states it.
C7_Expected ==
    IF req.body[1].description # <<>>
    THEN {IF r.id = req.body[1].id[1]
          THEN [r EXCEPT !.description = req.body[1].description[1]] ELSE r : r \in table0}
    ELSE {IF r.id = req.body[1].id[1]
          THEN [r EXCEPT !.isCompleted = Bit(req.body[1].isCompleted)] ELSE r : r \in table0}

\* Claim C7: an update changes exactly one column of the row matching id: the
\* description when the body supplies one (the empty string included), else
\* isCompleted, set to 1 for truthy input and 0 otherwise (of a request with a
\* body and an id, no step of which the environment failed).
C7_UpdateOneColumn ==
    (/\ Ended
     /\ ToLowerCase(req.method) = "put"
     /\ TokenParses(req.token)
     /\ ~fault
     /\ req.body # <<>>
     /\ req.body[1].id # <<>>)
        => table = C7_Expected

\* Claim C8: when the exchange of the access token for the caller's identity
\* fails, the request returns status 500 with the failure's message as
\* body.error, and no statement is built, handed to the driver or executed.
C8_ExchangeFailureIs500 ==
    exchangeError # <<>> =>
        /\ pc = "done"
        /\ response = <<[status |-> 500, body |-> [error |-> exchangeError[1]]]>>
        /\ query = <<>>
        /\ execSqlCalls = 0
        /\ executed = 0
        /\ table = table0

\* Reached for C8: getUserInfo failed on an acquired connection.
C8_Witness ==
    /\ exchangeError = <<"getUserInfo failed">>
    /\ pc = "done"
    /\ log = <<"acquire", "exchange", "close">>

\* Claim C9: for a method that is none of get/put/post/delete no query is
\* constructed, no row is read or changed, and the request still completes
\* with a {status, body} response.
C9_UnrecognisedMethod ==
    (pc # "idle" /\ ~Recognised(req.method)) =>
        /\ query = <<>>
        /\ executed = 0
        /\ res = {}
        /\ table = table0
        /\ pc # "uncaught"
        /\ pc = "done" => response # <<>>

\* The events of log occur in the order given by the sequence `order`, each at
\* most once.
InOrder(order) ==
    /\ \A i \in DOMAIN log : \E k \in DOMAIN order : order[k] = log[i]
    /\ \A i, j \in DOMAIN log :
         i < j => \A k, l \in DOMAIN order :
                    (order[k] = log[i] /\ order[l] = log[j]) => k < l

\* Claim C10, as stated: the suspend points occur in the order token exchange,
\* connection acquire, query execute, connection release; no connection is
\* held while the token exchange is in progress; at most one statement is
\* executed per request.
C10_ExchangeBeforeAcquire ==
    /\ InOrder(<<"exchange", "acquire", "exec", "close">>)
    /\ pc = "exchange" => connection = "none"
    /\ execSqlCalls <= 1
    /\ executed <= 1

\* Claim C10, amended: the suspend points occur in the order connection
\* acquire, token exchange, query execute, connection release; the connection
\* is already held while the token exchange is in progress; at most one
\* statement is executed per request.
C10_AcquireBeforeExchange ==
    /\ InOrder(<<"acquire", "exchange", "exec", "close">>)
    /\ pc = "exchange" => connection \in {"loggedIn", "final"}
    /\ pc = "exec" => connection \in {"loggedIn", "final"}
    /\ execSqlCalls <= 1
    /\ executed <= 1

\* Reached for C10: a request that passed all four points and executed its
\* statement.
C10_Witness ==
    /\ log = <<"acquire", "exchange", "exec", "close">>
    /\ executed = 1
    /\ pc = "done"

===========================================================================
